---- MODULE Spec2Model ----
(***************************************************************************)
(* Context Matcher (src/main.py): normalisation of free-text fields, the   *)
(* weighted scoring of a query against a detail record, and the linear     *)
(* scan of match_detail that keeps the first record of strictly greatest   *)
(* score.                                                                  *)
(*                                                                         *)
(* Strings are TLA+ strings, taken apart with Len, SubSeq and \o.  Scores  *)
(* are fixed-point numbers in units of 1/10000 (One = 1.0), so that        *)
(* 0.45 * 0.6 = 0.27 is the integer 2700.                                  *)
(***************************************************************************)
EXTENDS Integers, Sequences, FiniteSets, TLC

VARIABLES library, payload, input_norm, i, best, best_score, best_reasons,
          result, pc, norm_in, norm_out, norm_calls

vars == <<library, payload, input_norm, i, best, best_score, best_reasons,
          result, pc, norm_in, norm_out, norm_calls>>

matchVars == <<library, payload, input_norm, i, best, best_score,
               best_reasons, result, pc>>

normVars == <<norm_in, norm_out, norm_calls>>

-----------------------------------------------------------------------------
(* Bounds *)

\* longest library drawn from DetailPool (the shipped library is always drawn)
MaxLib == 2

\* most fragments concatenated into one raw string handed to normalize
MaxParts == 2

\* the value 1.0 in fixed-point units
One == 10000

-----------------------------------------------------------------------------
(* Strings *)

Char(s, k) == SubSeq(s, k, k)

Rest(s, k) == SubSeq(s, k, Len(s))

UpperChars == "ABCDEFGHIJKLMNOPQRSTUVWXYZ"

LowerChars == "abcdefghijklmnopqrstuvwxyz"

\* str.lower on the letters A-Z
ToLower ==
    [c \in {Char(UpperChars, k) : k \in 1..Len(UpperChars)} |->
        Char(LowerChars, CHOOSE k \in 1..Len(UpperChars) : Char(UpperChars, k) = c)]

LowerChar(c) == IF c \in DOMAIN ToLower THEN ToLower[c] ELSE c

RECURSIVE Lower(_)
Lower(s) == IF s = "" THEN "" ELSE LowerChar(Char(s, 1)) \o Lower(Rest(s, 2))

IsWhitespace(c) == c \in {" ", "\t", "\n"}

RECURSIVE LStrip(_)
LStrip(s) ==
    IF s = "" THEN s
    ELSE IF IsWhitespace(Char(s, 1)) THEN LStrip(Rest(s, 2)) ELSE s

RECURSIVE RStrip(_)
RStrip(s) ==
    IF s = "" THEN s
    ELSE IF IsWhitespace(Char(s, Len(s))) THEN RStrip(SubSeq(s, 1, Len(s) - 1)) ELSE s

StripKeepsWhitespace(s) == s

Strip(s) == RStrip(LStrip(s))

StartsAt(s, p, k) == k + Len(p) - 1 <= Len(s) /\ SubSeq(s, k, k + Len(p) - 1) = p

\* Python's `p in s`
Contains(p, s) == \E k \in 1..(Len(s) - Len(p) + 1) : StartsAt(s, p, k)

\* Python's s.replace(old, new) for a non-empty old: non-overlapping
\* occurrences, scanned left to right
RECURSIVE Replace(_, _, _)
Replace(s, old, new) ==
    IF Len(s) < Len(old) THEN s
    ELSE IF StartsAt(s, old, 1)
         THEN new \o Replace(Rest(s, Len(old) + 1), old, new)
         ELSE Char(s, 1) \o Replace(Rest(s, 2), old, new)

RECURSIVE Join(_, _)
Join(sep, strs) ==
    IF strs = <<>> THEN ""
    ELSE IF Len(strs) = 1 THEN strs[1]
    ELSE strs[1] \o sep \o Join(sep, Tail(strs))

-----------------------------------------------------------------------------
(* Normalisation *)

SynonymsWithoutExtWall ==
    << <<"exterior", "external">>,
       <<"interior", "internal">>,
       <<"concrete slab", "slab">>,
       <<"masonry", "cmu">>,
       <<"int wall", "internal wall">> >>

NORMALIZATION_SYNONYMS ==
    << <<"exterior", "external">>,
       <<"interior", "internal">>,
       <<"concrete slab", "slab">>,
       <<"masonry", "cmu">>,
       <<"ext wall", "external wall">>,
       <<"int wall", "internal wall">> >>

RECURSIVE ApplyRules(_, _)
ApplyRules(s, k) ==
    IF k > Len(NORMALIZATION_SYNONYMS) THEN s
    ELSE LET old == NORMALIZATION_SYNONYMS[k][1]
             new == NORMALIZATION_SYNONYMS[k][2]
         IN  ApplyRules(IF Contains(old, s) THEN Replace(s, old, new) ELSE s, k + 1)

normalize(s) == ApplyRules(Lower(Strip(s)), 1)

-----------------------------------------------------------------------------
(* Scoring *)

WeightsHostLow == [host |-> 4000, adjacent |-> 3500, exposure |-> 2000]

WeightsOverOne == [host |-> 4500, adjacent |-> 3500, exposure |-> 2500]

WEIGHTS == [host |-> 4500, adjacent |-> 3500, exposure |-> 2000]

\* detail.get(k, "")
Get(detail, k) == IF k \in DOMAIN detail THEN detail[k] ELSE ""

Exact(inp, det) == inp = det /\ inp # ""

Partial(inp, det) == inp # "" /\ det # "" /\ (Contains(inp, det) \/ Contains(det, inp))

HostCompare(host_input, host_detail) ==
    IF Exact(host_input, host_detail)
    THEN [add |-> WEIGHTS.host, reason |-> "Exact match on host"]
    ELSE IF Partial(host_input, host_detail)
    THEN [add |-> (WEIGHTS.host * 6) \div 10, reason |-> "Partial match on host"]
    ELSE [add |-> 0, reason |-> "Host differs"]

AdjacentCompareHalfCredit(adj_input, adj_detail) ==
    IF Exact(adj_input, adj_detail)
    THEN [add |-> WEIGHTS.adjacent, reason |-> "Exact match on adjacent element"]
    ELSE IF Partial(adj_input, adj_detail)
    THEN [add |-> (WEIGHTS.adjacent * 5) \div 10, reason |-> "Partial match on adjacent element"]
    ELSE [add |-> 0, reason |-> "Adjacent element differs"]

AdjacentCompare(adj_input, adj_detail) ==
    IF Exact(adj_input, adj_detail)
    THEN [add |-> WEIGHTS.adjacent, reason |-> "Exact match on adjacent element"]
    ELSE IF Partial(adj_input, adj_detail)
    THEN [add |-> (WEIGHTS.adjacent * 6) \div 10, reason |-> "Partial match on adjacent element"]
    ELSE [add |-> 0, reason |-> "Adjacent element differs"]

ExposureCompare(exp_input, exp_detail) ==
    IF Exact(exp_input, exp_detail)
    THEN [add |-> WEIGHTS.exposure, reason |-> "Exact match on exposure"]
    ELSE IF exp_input # "" /\ exp_detail # ""
    THEN [add |-> 0,
          reason |-> "Exposure differs (input=" \o exp_input \o ", detail=" \o exp_detail \o ")"]
    ELSE [add |-> 0, reason |-> "Exposure unknown"]

Max(a, b) == IF a >= b THEN a ELSE b

Min(a, b) == IF a <= b THEN a ELSE b

\* the three comparisons, in the order they are made
Compare(input_normalized, detail) ==
    << HostCompare(input_normalized.host, normalize(Get(detail, "host"))),
       AdjacentCompare(input_normalized.adjacent, normalize(Get(detail, "adjacent"))),
       ExposureCompare(input_normalized.exposure, normalize(Get(detail, "exposure"))) >>

Sum(c) == c[1].add + c[2].add + c[3].add

\* total_score as it stands just before the clamp
total_score(input_normalized, detail) == Sum(Compare(input_normalized, detail))

Clamp(x) == Max(0, Min(x, One))

score_match(input_normalized, detail) ==
    LET c == Compare(input_normalized, detail)
    IN  [score   |-> Clamp(Sum(c)),
         reasons |-> <<c[1].reason, c[2].reason, c[3].reason>>]

-----------------------------------------------------------------------------
(* The library *)

\* (the titles' en dashes are written as hyphens)
SAMPLE_DETAILS ==
    << [id |-> "D-001", title |-> "External Wall-Slab Junction Waterproofing",
        host |-> "external wall", adjacent |-> "slab", exposure |-> "external",
        notes |-> "Typical waterproofing and junction details for above-grade external wall to slab."],
       [id |-> "D-002", title |-> "Internal Partition-Slab Recess",
        host |-> "internal partition", adjacent |-> "slab", exposure |-> "internal",
        notes |-> "Interior partition details where a slab recess occurs."],
       [id |-> "D-003", title |-> "Curtain Wall-CMU Sill Detail",
        host |-> "curtain wall", adjacent |-> "cmu", exposure |-> "external",
        notes |-> "Sill interface with masonry backup (CMU)."],
       [id |-> "D-004", title |-> "Roof Edge-Parapet Flashing",
        host |-> "roof edge", adjacent |-> "parapet", exposure |-> "external",
        notes |-> "Roof edge termination and flashing detail."],
       [id |-> "D-005", title |-> "Foundation Wall-Footing Junction",
        host |-> "foundation wall", adjacent |-> "footing", exposure |-> "external",
        notes |-> "Below-grade foundation wall to footing connection detail."] >>

\* records a substituted library is drawn from: a shipped record, one
\* written with synonyms and capitals, one with an empty field, one with
\* missing fields
DetailPool ==
    { SAMPLE_DETAILS[1],
      [id |-> "X-001", title |-> "Ext Wall to Concrete Slab",
       host |-> "Ext Wall", adjacent |-> "Concrete Slab", exposure |-> " Exterior "],
      [id |-> "X-002", title |-> "Wall, no neighbour",
       host |-> "wall", adjacent |-> "", exposure |-> "external"],
      [id |-> "X-003", title |-> "Slab only", adjacent |-> "slab"] }

RECURSIVE SeqsUpTo(_, _)
SeqsUpTo(S, n) ==
    IF n = 0 THEN {<<>>}
    ELSE LET shorter == SeqsUpTo(S, n - 1)
         IN  shorter \cup {Append(q, x) : q \in {r \in shorter : Len(r) = n - 1}, x \in S}

Libraries == {SAMPLE_DETAILS} \cup SeqsUpTo(DetailPool, MaxLib)

HostInputs == {"", " ", "external wall", "ext wall", "masonry", "Wall"}

AdjacentInputs == {"", "\t", "slab", "sill", "lab"}

ExposureInputs == {"", " ", "external", "exterior", "ext"}

Payloads == [host_element : HostInputs, adjacent_element : AdjacentInputs,
             exposure : ExposureInputs]

-----------------------------------------------------------------------------
(* match_detail *)

NoOutput == [suggested_detail |-> "", confidence |-> 0, reason |-> ""]

MatchOutput(suggested_detail, confidence, reason) ==
    [suggested_detail |-> suggested_detail, confidence |-> confidence, reason |-> reason]

InitialBestScoreZero == 0 * One

InitialBestScore == -One

BetterOrEqual(s, current) == s >= current

Better(s, current) == s > current

\* round half to even at the given step (100 = two decimals, 1000 = one)
RoundTo(x, step) ==
    LET q == x \div step
        r == x % step
    IN  IF 2 * r > step \/ (2 * r = step /\ q % 2 = 1) THEN (q + 1) * step ELSE q * step

RoundOneDecimal(x) == RoundTo(x, 1000)

Round2(x) == RoundTo(x, 100)

Prefix(confidence) ==
    IF confidence >= 8500 THEN "High confidence: "
    ELSE IF confidence >= 5000 THEN "Medium confidence: "
    ELSE "Low confidence: "

Init ==
    /\ library \in Libraries
    /\ payload \in Payloads
    /\ input_norm = [host |-> "", adjacent |-> "", exposure |-> ""]
    /\ i = 0
    /\ best = 0
    /\ best_score = 0
    /\ best_reasons = <<>>
    /\ result = NoOutput
    /\ pc = "start"
    /\ norm_in = ""
    /\ norm_out = ""
    /\ norm_calls = 0

\* lines 144-153: normalise the payload, initialise the scan
Normalize ==
    /\ pc = "start"
    /\ input_norm' = [host     |-> normalize(payload.host_element),
                      adjacent |-> normalize(payload.adjacent_element),
                      exposure |-> normalize(payload.exposure)]
    /\ best' = 0
    /\ best_score' = InitialBestScore
    /\ best_reasons' = <<>>
    /\ i' = 1
    /\ pc' = "scan"
    /\ UNCHANGED <<library, payload, result, normVars>>

\* lines 154-159: one iteration of the loop over the library
ScoreDetail ==
    /\ pc = "scan"
    /\ i <= Len(library)
    /\ LET r == score_match(input_norm, library[i])
       IN  IF Better(r.score, best_score)
           THEN /\ best_score' = r.score
                /\ best' = i
                /\ best_reasons' = r.reasons
           ELSE UNCHANGED <<best_score, best, best_reasons>>
    /\ i' = i + 1
    /\ UNCHANGED <<library, payload, input_norm, result, pc, normVars>>

\* lines 162-163: nothing was kept
ReturnNoMatch ==
    /\ pc = "scan"
    /\ i > Len(library)
    /\ best = 0
    /\ result' = MatchOutput("No match found", 0, "No samples available")
    /\ pc' = "done"
    /\ UNCHANGED <<library, payload, input_norm, i, best, best_score, best_reasons, normVars>>

\* lines 165-181: round, bucket, compose the reason
ReturnBest ==
    /\ pc = "scan"
    /\ i > Len(library)
    /\ best # 0
    /\ LET confidence == Round2(best_score)
       IN  result' = MatchOutput(library[best].title, confidence,
                                 Prefix(confidence) \o Join("; ", best_reasons))
    /\ pc' = "done"
    /\ UNCHANGED <<library, payload, input_norm, i, best, best_score, best_reasons, normVars>>

Next == Normalize \/ ScoreDetail \/ ReturnNoMatch \/ ReturnBest

Spec == Init /\ [][Next]_vars

-----------------------------------------------------------------------------
(* normalize on its own, applied again to its own output *)

Fragments == {"concrete ", "slab", "concrete slab", "ext", " wall", "erior",
              "int", "Masonry", " ", "x", "External"}

RECURSIVE Concats(_)
Concats(n) ==
    IF n = 0 THEN {""}
    ELSE Concats(n - 1) \cup {s \o f : s \in Concats(n - 1), f \in Fragments}

RawStrings == Concats(MaxParts)

InitNormalize ==
    /\ library = <<>>
    /\ payload = [host_element |-> "", adjacent_element |-> "", exposure |-> ""]
    /\ input_norm = [host |-> "", adjacent |-> "", exposure |-> ""]
    /\ i = 0
    /\ best = 0
    /\ best_score = 0
    /\ best_reasons = <<>>
    /\ result = NoOutput
    /\ pc = "idle"
    /\ norm_in \in RawStrings
    /\ norm_out = ""
    /\ norm_calls = 0

\* normalize(s) on the raw string
NormalizeRaw ==
    /\ norm_calls = 0
    /\ norm_out' = normalize(norm_in)
    /\ norm_calls' = 1
    /\ UNCHANGED <<norm_in, matchVars>>

\* normalize applied to the previous call's output
NormalizeAgain ==
    /\ norm_calls = 1
    /\ norm_in' = norm_out
    /\ norm_out' = normalize(norm_out)
    /\ norm_calls' = 2
    /\ UNCHANGED matchVars

NextNormalize == NormalizeRaw \/ NormalizeAgain

SpecNormalize == InitNormalize /\ [][NextNormalize]_vars

-----------------------------------------------------------------------------
(* Properties *)

Scored == pc \in {"scan", "done"}

Returned == pc = "done"

Records == 1..Len(library)

ScoreOf(j) == score_match(input_norm, library[j])

\* C1: normalize is idempotent under the shipped synonym table: normalizing
\* the output of normalize gives that output back.
C1_NormalizeIdempotent == norm_calls = 2 => norm_out = norm_in

C2_Query ==
    /\ library = SAMPLE_DETAILS
    /\ payload = [host_element |-> "masonry", adjacent_element |-> "sill",
                  exposure |-> "external"]

\* C2 as stated: the query (masonry, sill, external) against the shipped
\* library selects D-003 on a partial host match and a mismatched adjacent
\* element, with confidence strictly between 0.0 and 0.85.
C2_SelectsD003 ==
    (Returned /\ C2_Query) =>
        /\ best = 3
        /\ result.suggested_detail = SAMPLE_DETAILS[3].title
        /\ best_reasons[1] = "Partial match on host"
        /\ best_reasons[2] = "Adjacent element differs"
        /\ result.confidence > 0
        /\ result.confidence < 8500

\* C2 amended: for that query D-003 scores 0.20 with "Host differs" (the
\* normalized host "cmu" is no substring of "curtain wall"), tying with
\* D-001; the scan keeps D-001, and the result is D-001 with confidence 0.20
\* (strictly between 0.0 and 0.85) on an exposure match only.
C2_SelectsD001 ==
    (Returned /\ C2_Query) =>
        /\ input_norm.host = "cmu"
        /\ ScoreOf(3) = [score |-> 2000,
                         reasons |-> <<"Host differs", "Adjacent element differs",
                                       "Exact match on exposure">>]
        /\ ScoreOf(1).score = 2000
        /\ best = 1
        /\ result = MatchOutput(SAMPLE_DETAILS[1].title, 2000,
               "Low confidence: Host differs; Adjacent element differs; Exact match on exposure")
        /\ result.confidence > 0
        /\ result.confidence < 8500

C2_Witness == Returned /\ C2_Query /\ best_score = 2000

\* C3: the record returned from a non-empty library is the earliest record
\* of maximum score: none scores more, every earlier record scores less.
C3_FirstMaximumWins ==
    (Returned /\ library # <<>>) =>
        /\ best \in Records
        /\ result.suggested_detail = library[best].title
        /\ best_score = ScoreOf(best).score
        /\ \A j \in Records : ScoreOf(j).score <= ScoreOf(best).score
        /\ \A j \in Records : j < best => ScoreOf(j).score < ScoreOf(best).score

\* a tie for the maximum between the returned record and a later one
C3_Witness ==
    /\ Returned
    /\ best \in Records
    /\ \E j \in Records : j > best /\ ScoreOf(j).score = best_score /\ best_score > 0

C4_AllExact(j) ==
    /\ input_norm.host # ""
    /\ input_norm.adjacent # ""
    /\ input_norm.exposure # ""
    /\ input_norm.host = normalize(Get(library[j], "host"))
    /\ input_norm.adjacent = normalize(Get(library[j], "adjacent"))
    /\ input_norm.exposure = normalize(Get(library[j], "exposure"))

C4_Query ==
    /\ library = SAMPLE_DETAILS
    /\ payload = [host_element |-> "external wall", adjacent_element |-> "slab",
                  exposure |-> "external"]

C4_HighExact ==
    "High confidence: Exact match on host; Exact match on adjacent element; Exact match on exposure"

\* C4: a record whose three normalized fields equal the non-empty normalized
\* query scores exactly 1.0 with the three "Exact match" reasons; when it
\* wins, the confidence is 1.0 and the reason starts "High confidence: ";
\* the query (external wall, slab, external) returns D-001 so.
C4_ExactMatchIsOne ==
    Returned =>
        /\ \A j \in Records : C4_AllExact(j) =>
              /\ ScoreOf(j) = [score |-> One,
                               reasons |-> <<"Exact match on host",
                                             "Exact match on adjacent element",
                                             "Exact match on exposure">>]
              /\ best = j =>
                    /\ result.confidence = One
                    /\ SubSeq(result.reason, 1, 17) = "High confidence: "
        /\ C4_Query =>
              /\ best = 1
              /\ result = MatchOutput(SAMPLE_DETAILS[1].title, One, C4_HighExact)

C4_Witness == Returned /\ C4_Query /\ C4_AllExact(1) /\ best = 1

C5_Query ==
    payload = [host_element |-> "ext wall", adjacent_element |-> "slab",
               exposure |-> "exterior"]

\* C5: the query (ext wall, slab, exterior) normalizes to (external wall,
\* slab, external) and, against the shipped library, returns D-001 with
\* confidence 1.0, the result of the canonical query.
C5_SynonymQuery ==
    (Scored /\ C5_Query) =>
        /\ input_norm = [host |-> "external wall", adjacent |-> "slab",
                         exposure |-> "external"]
        /\ (Returned /\ library = SAMPLE_DETAILS) =>
              /\ best = 1
              /\ result = MatchOutput(SAMPLE_DETAILS[1].title, One, C4_HighExact)

C5_Witness == Returned /\ C5_Query /\ library = SAMPLE_DETAILS /\ result.confidence = One

C6_Sentinel == MatchOutput("No match found", 0, "No samples available")

\* C6: with an empty library every query ends in the sentinel result
\* ("No match found", 0.0, a non-empty reason) and no record is kept; the
\* sentinel is returned for the empty library only.
C6_EmptyLibrarySentinel ==
    Returned =>
        /\ library = <<>> =>
              /\ result = C6_Sentinel
              /\ result.reason # ""
              /\ best = 0
        /\ (result = C6_Sentinel \/ best = 0) => library = <<>>

C6_Witness ==
    /\ Returned
    /\ library = <<>>
    /\ result = C6_Sentinel
    /\ payload.host_element = "external wall"

C7_Blank(s) == \A k \in 1..Len(s) : SubSeq(s, k, k) \in {" ", "\t", "\n"}

C7_BlankQuery ==
    /\ C7_Blank(payload.host_element)
    /\ C7_Blank(payload.adjacent_element)
    /\ C7_Blank(payload.exposure)

\* C7: an all-empty or all-whitespace query against a non-empty library
\* scores every record 0.0 and returns the first record with confidence 0.0
\* and the reason "Low confidence: Host differs; Adjacent element differs;
\* Exposure unknown".
C7_BlankQueryFirstRecord ==
    (Returned /\ C7_BlankQuery /\ library # <<>>) =>
        /\ \A j \in Records : ScoreOf(j).score = 0
        /\ best = 1
        /\ best_reasons = <<"Host differs", "Adjacent element differs", "Exposure unknown">>
        /\ result = MatchOutput(library[1].title, 0,
               "Low confidence: Host differs; Adjacent element differs; Exposure unknown")

C7_Witness ==
    /\ Returned
    /\ C7_BlankQuery
    /\ payload.host_element = " "
    /\ Len(library) >= 2
    /\ result.confidence = 0

\* C8: every score lies in [0.0, 1.0], and the sum of the three contributions
\* lies there before the clamp, which therefore changes nothing.
C8_ScoreInUnitRange ==
    Scored =>
        \A j \in Records :
            /\ ScoreOf(j).score >= 0
            /\ ScoreOf(j).score <= One
            /\ total_score(input_norm, library[j]) >= 0
            /\ total_score(input_norm, library[j]) <= One
            /\ ScoreOf(j).score = total_score(input_norm, library[j])

\* a library holding a record without a host field and one scoring the full 1.0
C8_Witness ==
    /\ Scored
    /\ \E j \in Records : "host" \notin DOMAIN library[j]
    /\ \E j \in Records : total_score(input_norm, library[j]) = One

C9_Bucket(score) ==
    IF score >= 8500 THEN "High confidence: "
    ELSE IF score >= 5000 THEN "Medium confidence: "
    ELSE "Low confidence: "

\* C9: the reason's prefix is the bucket of the winner's unrounded score
\* (High from 0.85, Medium from 0.5, Low below), rounding to two decimals
\* moves no score into another bucket, and the prefix is followed by the
\* host, adjacent and exposure reasons joined with "; ".
C9_PrefixByScore ==
    (Returned /\ library # <<>>) =>
        /\ \A j \in Records : C9_Bucket(Round2(ScoreOf(j).score)) = C9_Bucket(ScoreOf(j).score)
        /\ result.reason = C9_Bucket(ScoreOf(best).score)
                             \o ScoreOf(best).reasons[1] \o "; "
                             \o ScoreOf(best).reasons[2] \o "; "
                             \o ScoreOf(best).reasons[3]

\* a winner of score 0.47, which one-decimal rounding would lift to 0.5
C9_Witness == Returned /\ library # <<>> /\ best_score = 4700

C10_Field(q, d, weight) ==
    IF q # "" /\ q = d THEN weight
    ELSE IF q # "" /\ d # "" /\ (Contains(q, d) \/ Contains(d, q)) THEN (weight * 6) \div 10
    ELSE 0

C10_Exposure(q, d) == IF q # "" /\ q = d THEN 2000 ELSE 0

\* C10: host and adjacent each contribute their full weight on a non-empty
\* exact match, 0.6 of it on a non-empty substring match and nothing
\* otherwise, independently of the other fields; exposure contributes 0.20
\* on a non-empty exact match only; every call gives three reasons, for
\* host, adjacent and exposure in that order.
C10_FieldPolicy ==
    Scored =>
        \A j \in Records :
            LET r  == ScoreOf(j)
                hd == normalize(Get(library[j], "host"))
                ad == normalize(Get(library[j], "adjacent"))
                ed == normalize(Get(library[j], "exposure"))
            IN  /\ r.score = C10_Field(input_norm.host, hd, 4500)
                             + C10_Field(input_norm.adjacent, ad, 3500)
                             + C10_Exposure(input_norm.exposure, ed)
                /\ Len(r.reasons) = 3
                /\ r.reasons[1] \in {"Exact match on host", "Partial match on host", "Host differs"}
                /\ r.reasons[2] \in {"Exact match on adjacent element",
                                     "Partial match on adjacent element",
                                     "Adjacent element differs"}
                /\ r.reasons[3] \in {"Exact match on exposure", "Exposure unknown",
                                     "Exposure differs (input=" \o input_norm.exposure
                                         \o ", detail=" \o ed \o ")"}
                /\ r.reasons[1] = "Exact match on host" <=> C10_Field(input_norm.host, hd, 4500) = 4500
                /\ r.reasons[1] = "Partial match on host" <=> C10_Field(input_norm.host, hd, 4500) = 2700
                /\ r.reasons[2] = "Exact match on adjacent element"
                       <=> C10_Field(input_norm.adjacent, ad, 3500) = 3500
                /\ r.reasons[2] = "Partial match on adjacent element"
                       <=> C10_Field(input_norm.adjacent, ad, 3500) = 2100
                /\ r.reasons[3] = "Exact match on exposure"
                       <=> C10_Exposure(input_norm.exposure, ed) = 2000

\* host and adjacent both partial, exposure a proper substring earning nothing
C10_Witness ==
    /\ Scored
    /\ \E j \in Records :
          /\ ScoreOf(j).score = 4800
          /\ input_norm.exposure = "ext"
          /\ normalize(Get(library[j], "exposure")) = "external"

====
